---- MODULE Spec2Model ----
(***************************************************************************)
(* Block-support extraction of pyslm (src/pyslm/support/support.py).       *)
(*                                                                         *)
(* BlockSupportGenerator.identifySupportRegions is modelled as a           *)
(* sequential process: pc is the position in the method body, the other    *)
(* variables are the generator's attributes, the call's arguments and the  *)
(* method's local names.  Results of the geometry libraries (trimesh,      *)
(* shapely, the CSG backend, the ray caster) are drawn from small sets at  *)
(* the place of the call.                                                  *)
(*                                                                         *)
(* Python keeps a local name bound after the loop iteration that bound     *)
(* it.  Every local of the method except offsetPoly is rebound on every    *)
(* path before it is read, so the model returns those names to their       *)
(* "no value" constant once their last read of the iteration is past.      *)
(* offsetPoly is not rebound on every path (line 782 binds offsetPolys)    *)
(* and is therefore kept across iterations exactly as Python keeps it.     *)
(***************************************************************************)
EXTENDS Integers, Sequences, FiniteSets, TLC

\* ------------------------------------------------------------------ bounds
\* overhang regions returned by getOverhangMesh
MaxRegions == 2
\* closed contours returned by find_contours for one region
MaxOutlines == 1
\* vertices of a triangulated sub-region polygon
NumVerts == 2

\* --------------------------------------------------------------- constants
\* BlockSupportGenerator._intersectionVolumeTolerance
IntersectionVolumeTolerance == 50
\* BlockSupportGenerator.__init__: self._minimumAreaThreshold = 5.0
DefaultMinimumAreaThreshold == 5
\* BlockSupportGenerator.__init__: self._rayProjectionResolution = 0.2 (tenths of mm)
DefaultRayProjectionResolution == 2
\* BlockSupportGenerator.__init__: self._overhangAngle = 45.0
DefaultOverhangAngle == 45

\* ------------------------------------------------------------ value domains
\* overhang angles (degrees) a caller passes or assigns
Angles == {30, 45}
\* areas of a shrunk outline: below, equal to and above minimumAreaThreshold
Areas == {3, 5, 8}
\* volumes of cutMesh: below, equal to and above the tolerance
Volumes == {0, 50, 80}

NoValue == -1
NoShape == [kind |-> "None", pieces |-> << >>]
NoPath == [bound |-> FALSE, regions |-> {}]
NoOutline == [isClosed |-> FALSE, n |-> 0]
NotReturned == [returned |-> FALSE, blocks |-> << >>]

\* shapely result of polygon.simplify(..).buffer(-outerSupportEdgeGap):
\* a Polygon (one piece) or a MultiPolygon (two pieces), each piece with its area
OffsetShapes ==
    { [kind |-> "Polygon", pieces |-> << a >>] : a \in Areas }
    \cup { [kind |-> "MultiPolygon", pieces |-> << a, b >>] : a \in {3, 8}, b \in {3, 8} }

\* mergedPoly.is_closed and len(mergedPoly.polygons_full) of a simplified contour;
\* simplify_spline keeps closed entities only, so an open path has no polygon
OutlineResults ==
    { [isClosed |-> FALSE, n |-> 0] } \cup { [isClosed |-> TRUE, n |-> k] : k \in 0..2 }

VARIABLES
    pc,                          \* position in identifySupportRegions
    useApproxBasePlateSupport,   \* self._useApproxBasePlateSupport
    selfOverhangAngle,           \* self._overhangAngle
    overhangAngle,               \* argument overhangAngle
    findSelfIntersectingSupport, \* argument findSelfIntersectingSupport
    numSubregions,               \* len(overhangSubregions)
    subregion,                   \* index of the loop variable subregion
    offsetShape,                 \* local offsetShape
    offsetPoly,                  \* local offsetPoly
    cutVolume,                   \* cutMesh.volume
    gradThresholdUsed,           \* threshold handed to find_contours
    numOutlines,                 \* len(outlinePolygons)
    outline,                     \* index of the loop variable outline
    outPolygons,                 \* is_closed and len(outPolygons)
    polygons,                    \* local polygons
    polyIdx,                     \* index of the loop variable bufferPoly
    bufferArea,                  \* bufferPoly.area
    nCoords,                     \* len(coords)
    nHitLoc,                     \* len(hitLoc)
    nHitLoc2,                    \* len(hitLoc2)
    coords3,                     \* Z of the lower cap coords3
    supportBlockRegions,         \* local supportBlockRegions
    error,                       \* exception leaving the method
    result                       \* value handed to the caller

\* the mesh queries of BaseSupportGenerator
VARIABLES
    part,                        \* part.geometry as the mesh queries read it
    overhangArgs,                \* arguments of findOverhangEdges
    pointOverhangs,              \* value returned by findOverhangPoints
    overhangEdges                \* value returned by findOverhangEdges

\* a GridBlockSupport and a GridBlockSupportGenerator
VARIABLES
    gridBlock,                   \* attributes of a GridBlockSupport
    generator,                   \* attributes of a GridBlockSupportGenerator
    toothPattern,                \* value returned by gridBlock.toothProfile()
    supportBlocks,               \* local supportBlocks of GridBlockSupportGenerator.identifySupportRegions
    block,                       \* index of its loop variable block
    gridBlocks                   \* local gridBlocks

\* GridBlockSupport.geometry and the methods it calls
VARIABLES
    numSections,                 \* len(sectionsX) + len(sectionsY)
    section,                     \* index of the loop variable sectionX / sectionY
    numRuns,                     \* len(partsIdx) of the path of the section
    newPaths,                    \* local newPaths of generateSliceGeometry
    offsetPathInner,             \* len(offsetPathInner)
    sectionMeshList              \* xSectionMeshList and ySectionMeshList

\* a method called on its own
VARIABLES
    callArgs,                    \* the method and the values it reads
    callResult                   \* the value it returns

\* the names of BlockSupportGenerator.identifySupportRegions
regionVars == << pc, useApproxBasePlateSupport, selfOverhangAngle, overhangAngle,
                 findSelfIntersectingSupport, numSubregions, subregion, offsetShape,
                 offsetPoly, cutVolume, gradThresholdUsed, numOutlines, outline,
                 outPolygons, polygons, polyIdx, bufferArea, nCoords, nHitLoc,
                 nHitLoc2, coords3, supportBlockRegions, error, result >>

overhangVars == << part, overhangArgs, pointOverhangs, overhangEdges >>

\* the names the region extraction never touches
convertVars == << supportBlocks, block, gridBlocks >>
sliceVars == << numSections, section, numRuns, newPaths, offsetPathInner,
               sectionMeshList >>
gridVars == << gridBlock, generator, toothPattern, convertVars, sliceVars >>

methodVars == << callArgs, callResult >>

otherVars == << overhangVars, gridVars, methodVars >>

vars == << regionVars, otherVars >>

genVars == << useApproxBasePlateSupport, selfOverhangAngle >>
argVars == << overhangAngle, findSelfIntersectingSupport, numSubregions >>
outlineVars == << gradThresholdUsed, numOutlines, outline, outPolygons, polygons >>
polyVars == << polyIdx, bufferArea, nCoords, nHitLoc, nHitLoc2, coords3 >>
exitVars == << error, result >>

\* ------------------------------------------------- mesh queries: domains
\* vertices of the mesh handed to findOverhangPoints
NumMeshVerts == 3
\* unique edges of the mesh handed to findOverhangEdges
NumMeshEdges == 2

\* BaseSupportGenerator.POINT_OVERHANG_TOLERANCE = 0.05 (hundredths of mm)
POINT_OVERHANG_TOLERANCE == 5

\* vertex Z in hundredths of mm: differences of 1, 5 and 6
Heights == {0, 5, 6}
\* Z component of a vertex normal: downward, horizontal, upward
NormalZs == {-1, 0, 1}
\* 10000 * delta[2] / mag of an edge: inclinations of -5 and 10 degrees
EdgeSlopes == {-872, 1736}
\* getSupportAngles of a face (degrees)
FaceAngles == {60, 120}
\* rad2deg(mesh.face_adjacency_angles) of an adjacent face pair
DihedralAngles == {30, 60}
\* edgeOverhangAngle a caller passes (the default)
EdgeAngles == {10}

NoPart == [vertices |-> << >>]
NoObject == [constructed |-> FALSE]
NoArgs == [overhangAngle |-> NoValue, edgeOverhangAngle |-> NoValue]
NotCalled == [called |-> FALSE, value |-> << >>]
NoCall == [method |-> "none"]

VertexPairs == { pr \in SUBSET (1..NumMeshVerts) : Cardinality(pr) = 2 }

\* part.geometry as findOverhangPoints reads it: vertices (Z only),
\* vertex_neighbors (symmetric, from the edges es) and vertex_normals (Z only)
VertexMesh(z, nz, es) ==
    [ vertices |-> z,
      vertex_neighbors |->
          [ i \in 1..NumMeshVerts |->
              { n \in 1..NumMeshVerts : {i, n} \in es } ],
      vertex_normals |-> nz ]

\* orders in which face_adjacency can list the pairs of the unique edges
EdgeOrders ==
    { o \in [1..NumMeshEdges -> 1..NumMeshEdges] :
        \A i, j \in 1..NumMeshEdges : o[i] = o[j] => i = j }

\* part.geometry as findOverhangEdges reads it: a strip of NumMeshEdges + 1
\* faces; row k of face_adjacency holds faces k and k + 1, which share the
\* unique edge face_adjacency_edges[k]
EdgeMesh(sl, da, o, th) ==
    [ edge_slopes |-> sl,
      face_adjacency |-> [ k \in 1..NumMeshEdges |-> {k, k + 1} ],
      face_adjacency_angles |-> da,
      face_adjacency_edges |-> o,
      theta |-> th ]

\* ------------------------------------------------ grid supports: domains
\* lengths are in tenths of mm
\* supportTeethHeight: 1.0 and the default 1.5
TeethHeights == {10, 15}
\* supportTeethTopLength and supportTeethBottomLength: the defaults 0.1 and 1.5
TeethLengths == {1, 15}
\* supportTeethBaseInterval: the default 0.2 and 0.5
BaseIntervals == {2, 5}
\* supportTeethUpperPenetration: none and the default 0.2
Penetrations == {0, 2}

\* GridBlockSupport.__init__ (lines 1085-1109); _generateTrussGrid and
\* _upperSurface are not assigned there, an attribute never assigned is "unset"
GridBlockSupport(supportObject, supportVolume, supportSurface, intersectsPart) ==
    [ supportObject |-> supportObject,
      supportVolume |-> supportVolume,
      supportSurface |-> supportSurface,
      intersectsPart |-> intersectsPart,
      upperSurface |-> "unset",
      gridSpacing |-> << 30, 30 >>,
      useSupportBorder |-> TRUE,
      useSupportSkin |-> TRUE,
      supportWallThickness |-> 5,
      supportBorderDistance |-> 30,
      trussWidth |-> 10,
      trussAngle |-> 45,
      mergeMesh |-> FALSE,
      numSkinMeshSubdivideIterations |-> 2,
      supportTeethHeight |-> 15,
      supportTeethTopLength |-> 1,
      supportTeethBottomLength |-> 15,
      supportTeethBaseInterval |-> 2,
      supportTeethUpperPenetration |-> 2,
      useUpperSupportTeeth |-> TRUE,
      useLowerSupportTeeth |-> FALSE,
      generateTrussGrid |-> "unset" ]

\* GridBlockSupportGenerator.__init__ (lines 2483-2503)
GridBlockSupportGenerator ==
    [ gridSpacing |-> << 30, 30 >>,
      useSupportSkin |-> TRUE,
      useSupportBorder |-> TRUE,
      useLowerSupportTeeth |-> TRUE,
      useUpperSupportTeeth |-> TRUE,
      numSkinMeshSubdivideIterations |-> 2,
      supportTeethHeight |-> 15,
      supportTeethTopLength |-> 1,
      supportTeethBottomLength |-> 15,
      supportTeethBaseInterval |-> 2,
      supportTeethUpperPenetration |-> 2,
      mergeMesh |-> FALSE,
      supportBorderDistance |-> 30,
      trussWidth |-> 10,
      trussAngle |-> 45 ]

\* blocks returned by the base extractor to GridBlockSupportGenerator
MaxBlocks == 2

\* values a caller assigns to the attributes of a GridBlockSupportGenerator
GeneratorValues ==
    [ gridSpacing |-> { << 30, 30 >>, << 20, 20 >> },
      trussWidth |-> {5, 10},
      trussAngle |-> {45, 60},
      supportBorderDistance |-> {10, 30},
      numSkinMeshSubdivideIterations |-> {1, 2},
      useUpperSupportTeeth |-> BOOLEAN,
      useLowerSupportTeeth |-> BOOLEAN,
      supportTeethHeight |-> TeethHeights,
      supportTeethTopLength |-> TeethLengths,
      supportTeethBottomLength |-> TeethLengths,
      supportTeethBaseInterval |-> BaseIntervals,
      supportTeethUpperPenetration |-> Penetrations ]

\* sections cut through the support volume by generateGridSlices
MaxSections == 2
\* top and bottom edge runs of the path of one section
MaxRuns == 2

\* ps.length of an edge run, in tenths of mm: below, equal to and above the
\* tooth periods 1.7 and 2.0
RunLengths == {10, 17, 20, 40}

\* ------------------------------------------------------------ pure helpers
\* 1000 * tan(angle in degrees)
TanMilli(angle) ==
    CASE angle = 30 -> 577
      [] angle = 45 -> 1000
      [] OTHER -> 1732

\* BlockSupportGenerator.gradThreshold, in units of 1e-4
gradThreshold(rayProjectionDistance, angle) ==
    5 * TanMilli(angle) * rayProjectionDistance

\* offsetShape.area
ShapeArea(shape) ==
    IF Len(shape.pieces) = 1 THEN shape.pieces[1]
    ELSE shape.pieces[1] + shape.pieces[2]

\* lines 766 and 928 without the area test
AreaNeverTooSmall(area) == FALSE

\* area < self.minimumAreaThreshold (lines 766 and 928)
AreaTooSmall(area) == area < DefaultMinimumAreaThreshold

\* triPath.is_closed and triPath.area > self.minimumAreaThreshold (line 774)
ValidPiece(area) == area > DefaultMinimumAreaThreshold

\* len(offsetPolyList) after the loop of lines 772-776
NumValidPieces(shape) ==
    Cardinality({ i \in 1..Len(shape.pieces) : ValidPiece(shape.pieces[i]) })

\* cutMesh.volume < _intersectionVolumeTolerance (line 814)
BelowTolerance(volume) == volume < IntersectionVolumeTolerance

\* cutMesh.volume > _intersectionVolumeTolerance (line 962)
AboveTolerance(volume) == volume > IntersectionVolumeTolerance

\* The if / elif of lines 814-836 read with the elif inside the first if
SelfIntersectionBranchNested(volume, approx, find) ==
    IF BelowTolerance(volume)
    THEN IF approx THEN "basePlate"
         ELSE IF ~find THEN "skip" ELSE "reconstruct"
    ELSE "reconstruct"

\* lines 814-836: which way the self-intersection test sends a region
SelfIntersectionBranch(volume, approx, find) ==
    IF BelowTolerance(volume)
    THEN IF approx THEN "basePlate" ELSE "reconstruct"
    ELSE IF ~find THEN "skip" ELSE "reconstruct"

\* lines 911-915 with the multi-polygon contour skipped instead of raised
OutlineBranchSkipsMulti(o) ==
    IF ~o.isClosed \/ o.n = 0 THEN "skip"
    ELSE IF o.n > 1 THEN "skip" ELSE "collect"

\* lines 911-915: which way a simplified contour is sent
OutlineBranch(o) ==
    IF ~o.isClosed \/ o.n = 0 THEN "skip"
    ELSE IF o.n > 1 THEN "raise" ELSE "collect"

\* the base-plate block of lines 828-830 built with intersectsPart=True
BasePlateBlockIntersecting(r) ==
    [ supportObject |-> "part",
      supportVolume |-> [mesh |-> "extruMesh", region |-> r, poly |-> 0],
      supportSurface |-> r,
      intersectsPart |-> TRUE,
      upperSurface |-> "unset" ]

\* BlockSupportBase(supportObject=part, supportVolume=extruMesh, supportSurface=subregion)
BasePlateBlock(r) ==
    [ supportObject |-> "part",
      supportVolume |-> [mesh |-> "extruMesh", region |-> r, poly |-> 0],
      supportSurface |-> r,
      intersectsPart |-> FALSE,
      upperSurface |-> "unset" ]

\* BlockSupportBase(part, blockSupportMesh, subregion, intersectsPart=True); _upperSurface = surf2
\* (k numbers the meshes boolDiff has returned for region r)
SubregionBlock(r, k) ==
    [ supportObject |-> "part",
      supportVolume |-> [mesh |-> "blockSupportMesh", region |-> r, poly |-> k],
      supportSurface |-> r,
      intersectsPart |-> TRUE,
      upperSurface |-> "surf2" ]

ClearedPolyVars ==
    /\ polyIdx' = 0
    /\ bufferArea' = NoValue
    /\ nCoords' = NoValue
    /\ nHitLoc' = NoValue
    /\ nHitLoc2' = NoValue
    /\ coords3' = "unset"

ClearedOutlineVars ==
    /\ numOutlines' = 0
    /\ outline' = 0
    /\ outPolygons' = NoOutline
    /\ polygons' = << >>

\* `continue` of the region loop, or the end of its body (line 1036)
NextIteration ==
    /\ pc' = "loop"
    /\ offsetShape' = NoShape
    /\ cutVolume' = NoValue
    /\ gradThresholdUsed' = NoValue
    /\ ClearedOutlineVars
    /\ ClearedPolyVars

\* an exception leaves identifySupportRegions
Raise(what) ==
    /\ pc' = "raised"
    /\ error' = what
    /\ result' = NotReturned

\* ---------------------------------------------------------------- initial
\* BlockSupportGenerator.__init__ and no call of identifySupportRegions yet
RegionsIdle ==
    /\ pc = "idle"
    /\ useApproxBasePlateSupport = FALSE
    /\ selfOverhangAngle = DefaultOverhangAngle
    /\ overhangAngle = NoValue
    /\ findSelfIntersectingSupport = TRUE
    /\ numSubregions = 0
    /\ subregion = 0
    /\ offsetShape = NoShape
    /\ offsetPoly = NoPath
    /\ cutVolume = NoValue
    /\ gradThresholdUsed = NoValue
    /\ numOutlines = 0
    /\ outline = 0
    /\ outPolygons = NoOutline
    /\ polygons = << >>
    /\ polyIdx = 0
    /\ bufferArea = NoValue
    /\ nCoords = NoValue
    /\ nHitLoc = NoValue
    /\ nHitLoc2 = NoValue
    /\ coords3 = "unset"
    /\ supportBlockRegions = << >>
    /\ error = "none"
    /\ result = NotReturned

\* no mesh query has been called
OverhangIdle ==
    /\ part = NoPart
    /\ overhangArgs = NoArgs
    /\ pointOverhangs = NotCalled
    /\ overhangEdges = NotCalled

\* no method of the grid classes is running
GridCallsIdle ==
    /\ toothPattern = NotCalled
    /\ supportBlocks = << >>
    /\ block = 0
    /\ gridBlocks = << >>
    /\ numSections = 0
    /\ section = 0
    /\ numRuns = 0
    /\ newPaths = << >>
    /\ offsetPathInner = NoValue
    /\ sectionMeshList = << >>

\* no method of the grid classes has been called
MethodsIdle ==
    /\ GridCallsIdle
    /\ callArgs = NoCall
    /\ callResult = NotCalled

\* a GridBlockSupport() and a GridBlockSupportGenerator() as constructed
GridIdle ==
    /\ gridBlock = GridBlockSupport("None", "None", "None", FALSE)
    /\ generator = GridBlockSupportGenerator
    /\ MethodsIdle

\* a BlockSupportGenerator(): no object of the grid classes exists
Init ==
    /\ RegionsIdle
    /\ OverhangIdle
    /\ gridBlock = NoObject
    /\ generator = NoObject
    /\ MethodsIdle

\* a GridBlockSupport() and a GridBlockSupportGenerator()
InitGrid ==
    /\ RegionsIdle
    /\ OverhangIdle
    /\ GridIdle

\* ----------------------------------------------------- generator attributes
\* overhangAngle.setter
SetOverhangAngle ==
    /\ UNCHANGED otherVars
    /\ pc = "idle"
    /\ \E a \in Angles : selfOverhangAngle' = a
    /\ UNCHANGED << pc, useApproxBasePlateSupport, argVars, subregion, offsetShape,
                    offsetPoly, cutVolume, outlineVars, polyVars,
                    supportBlockRegions, exitVars >>

\* assignment to the attribute _useApproxBasePlateSupport
SetUseApproxBasePlateSupport ==
    /\ UNCHANGED otherVars
    /\ pc = "idle"
    /\ \E b \in BOOLEAN : useApproxBasePlateSupport' = b
    /\ UNCHANGED << pc, selfOverhangAngle, argVars, subregion, offsetShape,
                    offsetPoly, cutVolume, outlineVars, polyVars,
                    supportBlockRegions, exitVars >>

\* ------------------------------------------------- identifySupportRegions
\* lines 718-744: entry, getOverhangMesh, supportBlockRegions = []
Call ==
    /\ UNCHANGED otherVars
    /\ pc = "idle"
    /\ \E a \in Angles, f \in BOOLEAN, n \in 0..MaxRegions :
          /\ overhangAngle' = a
          /\ findSelfIntersectingSupport' = f
          /\ numSubregions' = n
    /\ supportBlockRegions' = << >>
    /\ subregion' = 0
    /\ pc' = "loop"
    /\ UNCHANGED << genVars, offsetShape, offsetPoly, cutVolume, outlineVars,
                    polyVars, exitVars >>

\* line 747: for subregion in overhangSubregions
LoopHead ==
    /\ UNCHANGED otherVars
    /\ pc = "loop"
    /\ subregion < numSubregions
    /\ subregion' = subregion + 1
    /\ pc' = "flatten"
    /\ UNCHANGED << genVars, argVars, offsetShape, offsetPoly, cutVolume,
                    outlineVars, polyVars, supportBlockRegions, exitVars >>

\* lines 1038-1040: return supportBlockRegions
Return ==
    /\ UNCHANGED otherVars
    /\ pc = "loop"
    /\ subregion = numSubregions
    /\ pc' = "returned"
    /\ result' = [returned |-> TRUE, blocks |-> supportBlockRegions]
    /\ UNCHANGED << genVars, argVars, subregion, offsetShape, offsetPoly, cutVolume,
                    outlineVars, polyVars, supportBlockRegions, error >>

\* lines 750-751: try: polygon = SupportStructure.flattenSupportRegion(subregion)
Flatten ==
    /\ UNCHANGED otherVars
    /\ pc = "flatten"
    /\ \E ok \in BOOLEAN : pc' = IF ok THEN "offset" ELSE "flattenExcept"
    /\ UNCHANGED << genVars, argVars, subregion, offsetShape, offsetPoly, cutVolume,
                    outlineVars, polyVars, supportBlockRegions, exitVars >>

\* lines 752-754 with the exception passed on to the caller
FlattenExceptRaises ==
    /\ UNCHANGED otherVars
    /\ pc = "flattenExcept"
    /\ Raise("Could not flatten region")
    /\ UNCHANGED << genVars, argVars, subregion, offsetShape, offsetPoly, cutVolume,
                    outlineVars, polyVars, supportBlockRegions >>

\* lines 752-754: except: logging.warning(..); continue
FlattenExcept ==
    /\ UNCHANGED otherVars
    /\ pc = "flattenExcept"
    /\ NextIteration
    /\ UNCHANGED << genVars, argVars, subregion, offsetPoly, supportBlockRegions,
                    exitVars >>

\* line 764: offsetShape = polygon.simplify(..).buffer(-self.outerSupportEdgeGap)
Offset ==
    /\ UNCHANGED otherVars
    /\ pc = "offset"
    /\ \E s \in OffsetShapes : offsetShape' = s
    /\ pc' = "areaCheck"
    /\ UNCHANGED << genVars, argVars, subregion, offsetPoly, cutVolume, outlineVars,
                    polyVars, supportBlockRegions, exitVars >>

\* lines 766-788: area test, MultiPolygon handling, offsetPoly
AreaCheck ==
    /\ UNCHANGED otherVars
    /\ pc = "areaCheck"
    /\ IF AreaTooSmall(ShapeArea(offsetShape))
       THEN \* line 768
            /\ NextIteration
            /\ UNCHANGED << offsetPoly, exitVars >>
       ELSE IF offsetShape.kind = "MultiPolygon"
       THEN IF NumValidPieces(offsetShape) = 0
            THEN \* line 780
                 /\ NextIteration
                 /\ UNCHANGED << offsetPoly, exitVars >>
            ELSE IF NumValidPieces(offsetShape) = 1
            THEN \* line 782 binds offsetPolys; the loop of line 784 is empty
                 /\ pc' = "intersect"
                 /\ offsetShape' = NoShape
                 /\ UNCHANGED << offsetPoly, cutVolume, outlineVars, polyVars,
                                 exitVars >>
            ELSE \* line 785: offsetPoly += poly
                 IF offsetPoly.bound
                 THEN /\ offsetPoly' = [bound |-> TRUE,
                                        regions |-> offsetPoly.regions \cup {subregion}]
                      /\ pc' = "intersect"
                      /\ offsetShape' = NoShape
                      /\ UNCHANGED << cutVolume, outlineVars, polyVars, exitVars >>
                 ELSE /\ Raise("UnboundLocalError")
                      /\ UNCHANGED << offsetShape, offsetPoly, cutVolume, outlineVars,
                                      polyVars >>
       ELSE \* line 788
            /\ offsetPoly' = [bound |-> TRUE, regions |-> {subregion}]
            /\ pc' = "intersect"
            /\ offsetShape' = NoShape
            /\ UNCHANGED << cutVolume, outlineVars, polyVars, exitVars >>
    /\ UNCHANGED << genVars, argVars, subregion, supportBlockRegions >>

\* lines 793-811: extruMesh, cutMesh = boolIntersect(part.geometry, extruMesh)
Intersect ==
    /\ UNCHANGED otherVars
    /\ pc = "intersect"
    /\ \E v \in Volumes : cutVolume' = v
    /\ pc' = "test"
    /\ UNCHANGED << genVars, argVars, subregion, offsetShape, offsetPoly, outlineVars,
                    polyVars, supportBlockRegions, exitVars >>

\* lines 814-836: the self-intersection test
SelfIntersectionTest ==
    /\ UNCHANGED otherVars
    /\ pc = "test"
    /\ LET branch == SelfIntersectionBranch(cutVolume, useApproxBasePlateSupport,
                                            findSelfIntersectingSupport)
       IN  CASE branch = "basePlate" ->
                    \* lines 816-834
                    /\ supportBlockRegions' =
                           Append(supportBlockRegions, BasePlateBlock(subregion))
                    /\ NextIteration
             [] branch = "skip" ->
                    \* line 836
                    /\ NextIteration
                    /\ UNCHANGED supportBlockRegions
             [] OTHER ->
                    \* line 838 is reached
                    /\ pc' = "heightMap"
                    /\ UNCHANGED << offsetShape, cutVolume, outlineVars, polyVars,
                                    supportBlockRegions >>
    /\ UNCHANGED << genVars, argVars, subregion, offsetPoly, exitVars >>

\* lines 838-884: cutMeshUpper, height map, gradient, find_contours, outlinePolygons
HeightMap ==
    /\ UNCHANGED otherVars
    /\ pc = "heightMap"
    /\ IF ~offsetPoly.bound
       THEN \* line 856 reads offsetPoly
            /\ Raise("UnboundLocalError")
            /\ UNCHANGED outlineVars
       ELSE /\ gradThresholdUsed' =
                   gradThreshold(DefaultRayProjectionResolution, selfOverhangAngle)
            /\ \E n \in 0..MaxOutlines : numOutlines' = n
            /\ outline' = 0
            /\ outPolygons' = NoOutline
            /\ polygons' = << >>
            /\ pc' = "outlines"
            /\ UNCHANGED exitVars
    /\ UNCHANGED << genVars, argVars, subregion, offsetShape, offsetPoly, cutVolume,
                    polyVars, supportBlockRegions >>

\* lines 887-909: for outline in outlinePolygons: mergedPoly, polygons_full
OutlineLoad ==
    /\ UNCHANGED otherVars
    /\ pc = "outlines"
    /\ outline < numOutlines
    /\ outline' = outline + 1
    /\ \E o \in OutlineResults : outPolygons' = o
    /\ pc' = "outlineCheck"
    /\ UNCHANGED << genVars, argVars, subregion, offsetShape, offsetPoly, cutVolume,
                    gradThresholdUsed, numOutlines, polygons, polyVars,
                    supportBlockRegions, exitVars >>

\* lines 911-924: skip, raise, or shrink by innerSupportEdgeGap and collect
OutlineCheck ==
    /\ UNCHANGED otherVars
    /\ pc = "outlineCheck"
    /\ LET branch == OutlineBranch(outPolygons)
       IN  CASE branch = "skip" ->
                    \* line 912
                    /\ pc' = "outlines"
                    /\ outPolygons' = NoOutline
                    /\ UNCHANGED << polygons, exitVars >>
             [] branch = "raise" ->
                    \* line 915
                    /\ Raise("Multi polygons")
                    /\ UNCHANGED << outPolygons, polygons >>
             [] OTHER ->
                    \* lines 917-924: bufferPoly is a Polygon or a MultiPolygon of two
                    /\ \E pieces \in 1..2 :
                          polygons' = polygons \o [i \in 1..pieces |-> Len(polygons) + i]
                    /\ pc' = "outlines"
                    /\ outPolygons' = NoOutline
                    /\ UNCHANGED exitVars
    /\ UNCHANGED << genVars, argVars, subregion, offsetShape, offsetPoly, cutVolume,
                    gradThresholdUsed, numOutlines, outline, polyVars,
                    supportBlockRegions >>

\* line 926 entered: the outline loop is exhausted
OutlinesDone ==
    /\ UNCHANGED otherVars
    /\ pc = "outlines"
    /\ outline = numOutlines
    /\ pc' = "polys"
    /\ UNCHANGED << genVars, argVars, subregion, offsetShape, offsetPoly, cutVolume,
                    outlineVars, polyVars, supportBlockRegions, exitVars >>

\* line 926: for bufferPoly in polygons (bufferPoly.area is read at line 928)
PolyHead ==
    /\ UNCHANGED otherVars
    /\ pc = "polys"
    /\ polyIdx < Len(polygons)
    /\ polyIdx' = polyIdx + 1
    /\ \E a \in Areas : bufferArea' = a
    /\ coords3' = "unset"
    /\ pc' = "polyArea"
    /\ UNCHANGED << genVars, argVars, subregion, offsetShape, offsetPoly, cutVolume,
                    outlineVars, nCoords, nHitLoc, nHitLoc2,
                    supportBlockRegions, exitVars >>

\* lines 928-969: area test, triangulation, upward and downward ray casts
PolyRayCast ==
    /\ UNCHANGED otherVars
    /\ pc = "polyArea"
    /\ IF AreaTooSmall(bufferArea)
       THEN \* line 929
            /\ pc' = "polys"
            /\ bufferArea' = NoValue
            /\ UNCHANGED << nCoords, nHitLoc, nHitLoc2, coords3 >>
       ELSE \* every ray hits at most once (multiple_hits=False); below the
            \* tolerance line 969 sets hitLoc2 = []
            /\ \E u \in 0..NumVerts, d \in 0..NumVerts :
                  /\ AboveTolerance(cutVolume) \/ d = 0
                  /\ nCoords' = NumVerts
                  /\ nHitLoc' = u
                  /\ nHitLoc2' = d
            /\ coords3' = "zero"
            /\ pc' = "build"
            /\ bufferArea' = NoValue
    /\ UNCHANGED << genVars, argVars, subregion, offsetShape, offsetPoly, cutVolume,
                    outlineVars, polyIdx, supportBlockRegions, exitVars >>

\* number of blocks of region r in a block list
BlocksOf(blocks, r) ==
    Cardinality({ i \in 1..Len(blocks) : blocks[i].supportSurface = r })

\* lines 971-1034: projection check, extrusion, boolDiff, append the block;
\* then back to line 926 for the next bufferPoly
BuildBlock ==
    /\ UNCHANGED otherVars
    /\ pc = "build"
    /\ IF nHitLoc # nCoords \/ nHitLoc2 # nHitLoc
       THEN IF nHitLoc2 = 0
            THEN \* lines 976-979: base plate, coords3 stays at Z = 0
                 /\ supportBlockRegions' =
                        Append(supportBlockRegions,
                               SubregionBlock(subregion,
                                              BlocksOf(supportBlockRegions, subregion) + 1))
                 /\ coords3' = "zero"
            ELSE \* line 982
                 /\ UNCHANGED supportBlockRegions
                 /\ coords3' = "unset"
       ELSE \* line 984
            /\ coords3' = "hitMinusLowerProjectionOffset"
            /\ supportBlockRegions' =
                   Append(supportBlockRegions,
                          SubregionBlock(subregion,
                                         BlocksOf(supportBlockRegions, subregion) + 1))
    /\ pc' = "polys"
    /\ bufferArea' = NoValue
    /\ nCoords' = NoValue
    /\ nHitLoc' = NoValue
    /\ nHitLoc2' = NoValue
    /\ UNCHANGED << genVars, argVars, subregion, offsetShape, offsetPoly, cutVolume,
                    outlineVars, polyIdx, exitVars >>

\* line 1036: the polygon loop is exhausted, the region is processed
RegionDone ==
    /\ UNCHANGED otherVars
    /\ pc = "polys"
    /\ polyIdx = Len(polygons)
    /\ NextIteration
    /\ UNCHANGED << genVars, argVars, subregion, offsetPoly, supportBlockRegions,
                    exitVars >>

Next ==
    \/ SetOverhangAngle
    \/ SetUseApproxBasePlateSupport
    \/ Call
    \/ LoopHead
    \/ Return
    \/ Flatten
    \/ FlattenExcept
    \/ Offset
    \/ AreaCheck
    \/ Intersect
    \/ SelfIntersectionTest
    \/ HeightMap
    \/ OutlineLoad
    \/ OutlineCheck
    \/ OutlinesDone
    \/ PolyHead
    \/ PolyRayCast
    \/ BuildBlock
    \/ RegionDone

Spec == Init /\ [][Next]_vars

\* ------------------------------------------------------------ mesh queries
\* lines 319-326: the two tests of findOverhangPoints with >= for the first
IsPointOverhangInclusive(mesh, i) ==
    /\ \A n \in mesh.vertex_neighbors[i] :
          mesh.vertices[n] - mesh.vertices[i] >= -POINT_OVERHANG_TOLERANCE
    /\ mesh.vertex_normals[i] < 0

\* lines 319-326: np.all(delta[:, 2] > -POINT_OVERHANG_TOLERANCE) and
\* vertex_normals[i][2] < 0.0
IsPointOverhang(mesh, i) ==
    /\ \A n \in mesh.vertex_neighbors[i] :
          mesh.vertices[n] - mesh.vertices[i] > -POINT_OVERHANG_TOLERANCE
    /\ mesh.vertex_normals[i] < 0

\* lines 317-328: for i in range(len(vAdjacency)): ... pointOverhangs.append(i)
RECURSIVE AppendPointOverhangs(_, _, _)
AppendPointOverhangs(mesh, i, acc) ==
    IF i > Len(mesh.vertex_neighbors) THEN acc
    ELSE AppendPointOverhangs(mesh, i + 1,
             IF IsPointOverhang(mesh, i) THEN Append(acc, i) ELSE acc)

\* BaseSupportGenerator.findOverhangPoints
findOverhangPoints(mesh) == AppendPointOverhangs(mesh, 1, << >>)

\* np.rad2deg(np.arcsin(s / 10000)), to the whole degree
ArcSinDeg(s) ==
    CASE s = -872 -> -5
      [] s = 1736 -> 10
      [] OTHER -> 0

\* np.abs
Abs(x) == IF x < 0 THEN -x ELSE x

\* lines 372-379: the tests of findOverhangEdges on the unique edge i
IsEdgeOverhang(mesh, i, overhangAng, edgeOverhangAngle) ==
    /\ Abs(ArcSinDeg(mesh.edge_slopes[i])) < edgeOverhangAngle
    /\ mesh.face_adjacency_angles[i] > overhangAng
    /\ \A f \in mesh.face_adjacency[i] : mesh.theta[f] > 89

\* lines 364-381: for i in range(len(edgeVerts)): ... overhangEdges.append(edges[i])
RECURSIVE AppendOverhangEdges(_, _, _, _, _)
AppendOverhangEdges(mesh, i, acc, overhangAng, edgeOverhangAngle) ==
    IF i > Len(mesh.edge_slopes) THEN acc
    ELSE AppendOverhangEdges(mesh, i + 1,
             IF IsEdgeOverhang(mesh, i, overhangAng, edgeOverhangAngle)
             THEN Append(acc, i) ELSE acc,
             overhangAng, edgeOverhangAngle)

\* BaseSupportGenerator.findOverhangEdges
findOverhangEdges(mesh, overhangAng, edgeOverhangAngle) ==
    AppendOverhangEdges(mesh, 1, << >>, overhangAng, edgeOverhangAngle)

\* a part is loaded, findOverhangPoints has not been called
InitPoints ==
    /\ RegionsIdle
    /\ \E z \in [1..NumMeshVerts -> Heights],
          nz \in [1..NumMeshVerts -> NormalZs],
          es \in SUBSET VertexPairs :
          part = VertexMesh(z, nz, es)
    /\ overhangArgs = NoArgs
    /\ pointOverhangs = NotCalled
    /\ overhangEdges = NotCalled
    /\ gridBlock = NoObject
    /\ generator = NoObject
    /\ MethodsIdle

\* pointOverhangs = BaseSupportGenerator.findOverhangPoints(part)
FindOverhangPoints ==
    /\ ~pointOverhangs.called
    /\ pointOverhangs' = [called |-> TRUE, value |-> findOverhangPoints(part)]
    /\ UNCHANGED << regionVars, part, overhangArgs, overhangEdges, gridVars,
                    methodVars >>

NextPoints ==
    \/ FindOverhangPoints

SpecPoints == InitPoints /\ [][NextPoints]_vars

\* a part is loaded, findOverhangEdges has not been called
InitEdges ==
    /\ RegionsIdle
    /\ \E sl \in [1..NumMeshEdges -> EdgeSlopes],
          da \in [1..NumMeshEdges -> DihedralAngles],
          o \in EdgeOrders,
          th \in [1..(NumMeshEdges + 1) -> FaceAngles] :
          part = EdgeMesh(sl, da, o, th)
    /\ overhangArgs \in [overhangAngle : Angles, edgeOverhangAngle : EdgeAngles]
    /\ pointOverhangs = NotCalled
    /\ overhangEdges = NotCalled
    /\ gridBlock = NoObject
    /\ generator = NoObject
    /\ MethodsIdle

\* overhangEdges = BaseSupportGenerator.findOverhangEdges(part, overhangAngle, edgeOverhangAngle)
FindOverhangEdges ==
    /\ ~overhangEdges.called
    /\ overhangEdges' =
          [called |-> TRUE,
           value |-> findOverhangEdges(part, overhangArgs.overhangAngle,
                                       overhangArgs.edgeOverhangAngle)]
    /\ UNCHANGED << regionVars, part, overhangArgs, pointOverhangs, gridVars,
                    methodVars >>

NextEdges ==
    \/ FindOverhangEdges

SpecEdges == InitEdges /\ [][NextEdges]_vars

\* ------------------------------------------------- grid supports: teeth
\* GridBlockSupport.supportTeethBottomLength (getter, lines 1176-1181)
GridBlockSupportTeethBottomLength(self) == self.supportTeethTopLength

\* GridBlockSupportGenerator.supportTeethBottomLength (getter, lines 2616-2621)
GeneratorSupportTeethBottomLength(self) == self.supportTeethTopLength

\* lines 1448-1467 without the shift by -p_a + _supportTeethUpperPenetration
toothProfileUnshifted(self) ==
    LET p_a == self.supportTeethHeight
        p_b == self.supportTeethTopLength
        p_c == self.supportTeethBottomLength
        p_d == self.supportTeethBaseInterval
    IN  << << 0, 0 >>,
           << (p_c - p_b) \div 2, p_a >>,
           << (p_c - p_b) \div 2 + p_b, p_a >>,
           << p_c, 0 >>,
           << p_c + p_d, 0 >> >>

\* GridBlockSupport.toothProfile (lines 1442-1467)
toothProfile(self) ==
    LET p_a == self.supportTeethHeight
        p_b == self.supportTeethTopLength
        p_c == self.supportTeethBottomLength
        p_d == self.supportTeethBaseInterval
        pattern == << << 0, 0 >>,
                      << (p_c - p_b) \div 2, p_a >>,
                      << (p_c - p_b) \div 2 + p_b, p_a >>,
                      << p_c, 0 >>,
                      << p_c + p_d, 0 >> >>
    IN  [ k \in 1..Len(pattern) |->
            << pattern[k][1],
               pattern[k][2] - p_a + self.supportTeethUpperPenetration >> ]

\* the frame of an assignment to one attribute of gridBlock
OnlyGridBlock ==
    UNCHANGED << regionVars, overhangVars, methodVars, generator, toothPattern, convertVars,
                 sliceVars >>

\* the frame of an assignment to one attribute of generator
OnlyGenerator ==
    UNCHANGED << regionVars, overhangVars, methodVars, gridBlock, toothPattern, convertVars,
                 sliceVars >>

\* GridBlockSupport.supportTeethHeight.setter
SetSupportTeethHeight ==
    /\ \E v \in TeethHeights :
          gridBlock' = [gridBlock EXCEPT !.supportTeethHeight = v]
    /\ OnlyGridBlock

\* GridBlockSupport.supportTeethTopLength.setter
SetSupportTeethTopLength ==
    /\ \E v \in TeethLengths :
          gridBlock' = [gridBlock EXCEPT !.supportTeethTopLength = v]
    /\ OnlyGridBlock

\* GridBlockSupport.supportTeethBottomLength.setter
SetSupportTeethBottomLength ==
    /\ \E v \in TeethLengths :
          gridBlock' = [gridBlock EXCEPT !.supportTeethBottomLength = v]
    /\ OnlyGridBlock

\* GridBlockSupport.supportTeethBaseInterval.setter
SetSupportTeethBaseInterval ==
    /\ pc = "idle"
    /\ \E v \in BaseIntervals :
          gridBlock' = [gridBlock EXCEPT !.supportTeethBaseInterval = v]
    /\ OnlyGridBlock

\* GridBlockSupport.supportTeethUpperPenetration.setter
SetSupportTeethUpperPenetration ==
    /\ \E v \in Penetrations :
          gridBlock' = [gridBlock EXCEPT !.supportTeethUpperPenetration = v]
    /\ OnlyGridBlock

\* GridBlockSupportGenerator.supportTeethTopLength.setter
SetGeneratorTeethTopLength ==
    /\ pc = "idle"
    /\ \E v \in TeethLengths :
          generator' = [generator EXCEPT !.supportTeethTopLength = v]
    /\ OnlyGenerator

\* GridBlockSupportGenerator.supportTeethBottomLength.setter
SetGeneratorTeethBottomLength ==
    /\ pc = "idle"
    /\ \E v \in TeethLengths :
          generator' = [generator EXCEPT !.supportTeethBottomLength = v]
    /\ OnlyGenerator

\* toothPattern = gridBlock.toothProfile()
ToothProfile ==
    /\ toothPattern' = [called |-> TRUE, value |-> toothProfile(gridBlock)]
    /\ UNCHANGED << regionVars, overhangVars, methodVars, gridBlock, generator, convertVars,
                    sliceVars >>

NextTeeth ==
    \/ SetSupportTeethHeight
    \/ SetSupportTeethTopLength
    \/ SetSupportTeethBottomLength
    \/ SetSupportTeethBaseInterval
    \/ SetSupportTeethUpperPenetration
    \/ SetGeneratorTeethTopLength
    \/ SetGeneratorTeethBottomLength
    \/ ToothProfile

SpecTeeth == InitGrid /\ [][NextTeeth]_vars

\* -------------------- GridBlockSupportGenerator.identifySupportRegions
\* lists super().identifySupportRegions can return: block i is the base-plate
\* block of lines 816-834 (approximate mode only) or a block of lines 1027-1034
BaseBlockLists(approx) ==
    UNION { { [ i \in 1..n |-> IF f[i] THEN BasePlateBlock(i)
                                       ELSE SubregionBlock(i, 1) ] :
              f \in [1..n -> IF approx THEN BOOLEAN ELSE {FALSE}] } :
            n \in 0..MaxBlocks }

\* lines 2667-2689: gridBlock = GridBlockSupport(..) and the attributes copied
\* from the generator (line 2676: supportTeethTopLength = self._supportTeethHeight)
GridBlockOf(gen, b) ==
    [ GridBlockSupport(b.supportObject, b.supportVolume, b.supportSurface,
                       b.intersectsPart)
      EXCEPT !.gridSpacing = gen.gridSpacing,
             !.numSkinMeshSubdivideIterations = gen.numSkinMeshSubdivideIterations,
             !.supportTeethHeight = gen.supportTeethHeight,
             !.supportTeethTopLength = gen.supportTeethHeight,
             !.supportTeethBottomLength = gen.supportTeethBottomLength,
             !.supportTeethBaseInterval = gen.supportTeethBaseInterval,
             !.supportTeethUpperPenetration = gen.supportTeethUpperPenetration,
             !.useSupportSkin = gen.useSupportSkin,
             !.useSupportBorder = gen.useSupportBorder,
             !.useLowerSupportTeeth = gen.useLowerSupportTeeth,
             !.useUpperSupportTeeth = gen.useUpperSupportTeeth,
             !.supportBorderDistance = gen.supportBorderDistance,
             !.trussWidth = gen.trussWidth,
             !.trussAngle = gen.trussAngle,
             !.mergeMesh = gen.mergeMesh ]

\* the names of the base extractor, untouched by the conversion
superLocals == << genVars, argVars, subregion, offsetShape, offsetPoly, cutVolume,
                  outlineVars, polyVars, supportBlockRegions >>

\* lines 2556-2558: the getter of the property spelt useLowerSupporTeeth
useLowerSupporTeeth(self) == self.useUpperSupportTeeth

\* the setters of lines 2508-2644: self._<attribute> = value
SetGeneratorAttribute ==
    /\ pc = "idle"
    /\ \E f \in DOMAIN GeneratorValues : \E v \in GeneratorValues[f] :
          generator' = [generator EXCEPT ![f] = v]
    /\ UNCHANGED << regionVars, overhangVars, methodVars, gridBlock, toothPattern, convertVars,
                    sliceVars >>

\* line 2662: supportBlocks = super().identifySupportRegions(..) returns
GridCall ==
    /\ pc = "idle"
    /\ \E blocks \in BaseBlockLists(useApproxBasePlateSupport) :
          supportBlocks' = blocks
    /\ block' = 0
    /\ gridBlocks' = << >>
    /\ pc' = "convert"
    /\ UNCHANGED << superLocals, exitVars, overhangVars, methodVars, gridBlock, generator,
                    toothPattern, sliceVars >>

\* line 2662: super().identifySupportRegions(..) raises
GridCallRaises ==
    /\ pc = "idle"
    /\ Raise("raised by the base extractor")
    /\ UNCHANGED << superLocals, otherVars >>

\* lines 2666-2693: one pass of for block in supportBlocks, with a base block
\* that has no _upperSurface attribute (line 2691 raises AttributeError)
ConvertBlock ==
    /\ pc = "convert"
    /\ block < Len(supportBlocks)
    /\ block' = block + 1
    /\ IF supportBlocks[block + 1].upperSurface = "unset"
       THEN /\ Raise("AttributeError: _upperSurface")
            /\ UNCHANGED gridBlocks
       ELSE /\ gridBlocks' =
                  Append(gridBlocks,
                         [GridBlockOf(generator, supportBlocks[block + 1])
                          EXCEPT !.upperSurface = supportBlocks[block + 1].upperSurface])
            /\ UNCHANGED << pc, exitVars >>
    /\ UNCHANGED << superLocals, overhangVars, methodVars, gridBlock, generator, toothPattern,
                    supportBlocks, sliceVars >>

\* line 2695: return gridBlocks
GridReturn ==
    /\ pc = "convert"
    /\ block = Len(supportBlocks)
    /\ pc' = "returned"
    /\ result' = [returned |-> TRUE, blocks |-> gridBlocks]
    /\ UNCHANGED << superLocals, error, otherVars >>

NextGridGenerator ==
    \/ SetUseApproxBasePlateSupport
    \/ SetGeneratorAttribute
    \/ GridCall
    \/ GridCallRaises
    \/ ConvertBlock
    \/ GridReturn

SpecGridGenerator == InitGrid /\ [][NextGridGenerator]_vars

\* ------------------------------------ GridBlockSupport.generateSupportSkins
\* loops of the outline of the top surface and of the bottom surface
MaxLoops == 2

\* XY lengths of an outline loop, in tenths of a millimetre: 40 and 44 lie
\* within the pair tolerance one way round and on it the other way round
LoopLengths == {40, 44, 60}

\* areas of a component split off the vertical walls: below and above 5
SurfAreas == {3, 8}

\* the sequences over S of length lo..hi
SeqsOf(S, lo, hi) == UNION { [1..n -> S] : n \in lo..hi }

\* lines 2023-2032: the (i, j) appended to pairs, in loop order; the ratio test
\* np.abs(pathLen - botPathLen) / botPathLen < 0.1 in whole numbers
topBottomPairs(topPaths, bottomPaths) ==
    LET m == Len(bottomPaths)
        all == [k \in 1..(Len(topPaths) * m) |->
                   [top |-> ((k - 1) \div m) + 1, bottom |-> ((k - 1) % m) + 1]]
        InTolerance(p) ==
            10 * Abs(topPaths[p.top] - bottomPaths[p.bottom]) < bottomPaths[p.bottom]
    IN  SelectSeq(all, InTolerance)

\* lines 1983-2318 without the test of lines 2045-2049
generateSupportSkinsUnchecked(surfAreas, topPaths, bottomPaths) ==
    LET IsLarge(area) == area > 5
        supportSurf == SelectSeq(surfAreas, IsLarge)
        pairs == topBottomPairs(topPaths, bottomPaths)
    IN  IF Len(supportSurf) < 2 THEN << >>
        ELSE IF Len(supportSurf) > 2 THEN << >>
        ELSE IF Len(pairs) < 1 THEN << >>
        ELSE pairs

\* lines 1983-2318: GridBlockSupport.generateSupportSkins from the areas of the
\* components of the vertical walls and the loop lengths of the top and bottom
\* outlines; each pair yields one boundaryMesh
generateSupportSkins(surfAreas, topPaths, bottomPaths) ==
    LET IsLarge(area) == area > 5
        supportSurf == SelectSeq(surfAreas, IsLarge)
        pairs == topBottomPairs(topPaths, bottomPaths)
    IN  IF Len(supportSurf) < 2 THEN << >>
        ELSE IF Len(supportSurf) > 2 THEN << >>
        ELSE IF Len(pairs) < 1 THEN << >>
        ELSE IF Len(topPaths) # Len(bottomPaths) THEN << >>
        ELSE pairs

\* ------------------------------------------------ GridBlockSupport.geometry
\* line 1541 with the quotient rounded down
numCyclesFloor(length, patternLen) == length \div patternLen

\* line 1541: numCycles = int(np.ceil(ps.length / patternLen))
numCycles(length, patternLen) == (length + patternLen - 1) \div patternLen

\* lines 1534-1581 with the two flags exchanged
teethFinalSwapped(self, isccw, length) ==
    LET patternLen == toothProfile(self)[5][1]
        seg == [isccw |-> isccw, length |-> length, original |-> TRUE, cycles |-> 0]
        stamped == [isccw |-> isccw, length |-> length, original |-> FALSE,
                    cycles |-> numCycles(length, patternLen)]
        short == IF numCycles(length, patternLen) = 1 THEN seg ELSE stamped
        lower == IF ~self.useUpperSupportTeeth /\ ~isccw THEN seg ELSE short
    IN  IF ~self.useLowerSupportTeeth /\ isccw THEN seg ELSE lower

\* lines 1534-1581: the vertex sequence emitted for one edge run; an isccw run
\* (dir < 0) is an upper run; a stamped run is described by its number of periods
teethFinal(self, isccw, length) ==
    LET patternLen == toothProfile(self)[5][1]
        seg == [isccw |-> isccw, length |-> length, original |-> TRUE, cycles |-> 0]
        stamped == [isccw |-> isccw, length |-> length, original |-> FALSE,
                    cycles |-> numCycles(length, patternLen)]
        short == IF numCycles(length, patternLen) = 1 THEN seg ELSE stamped
        lower == IF ~self.useLowerSupportTeeth /\ ~isccw THEN seg ELSE short
    IN  IF ~self.useUpperSupportTeeth /\ isccw THEN seg ELSE lower

\* the blocks geometry() is called on: GridBlockSupport() as constructed, and a
\* block returned by a default generator for a region intersecting the part
CreatedBlocks ==
    { GridBlockSupport("None", "None", "None", FALSE),
      [ GridBlockOf(GridBlockSupportGenerator, SubregionBlock(1, 1))
        EXCEPT !.upperSurface = "surf2" ] }

InitSlices ==
    /\ RegionsIdle
    /\ OverhangIdle
    /\ gridBlock \in CreatedBlocks
    /\ generator = GridBlockSupportGenerator
    /\ MethodsIdle

\* GridBlockSupport.useUpperSupportTeeth.setter
SetUseUpperSupportTeeth ==
    /\ pc = "idle"
    /\ \E v \in BOOLEAN : gridBlock' = [gridBlock EXCEPT !.useUpperSupportTeeth = v]
    /\ OnlyGridBlock

\* GridBlockSupport.useLowerSupportTeeth.setter
SetUseLowerSupportTeeth ==
    /\ pc = "idle"
    /\ \E v \in BOOLEAN : gridBlock' = [gridBlock EXCEPT !.useLowerSupportTeeth = v]
    /\ OnlyGridBlock

\* GridBlockSupport.generateTrussGrid.setter
SetGenerateTrussGrid ==
    /\ pc = "idle"
    /\ \E v \in {"True", "False"} :
          gridBlock' = [gridBlock EXCEPT !.generateTrussGrid = v]
    /\ OnlyGridBlock

\* GridBlockSupport.supportWallThickness.setter (lines 1134-1136)
SetSupportWallThickness ==
    /\ pc = "idle"
    /\ \E v \in {0, 5} : gridBlock' = [gridBlock EXCEPT !.supportWallThickness = v]
    /\ OnlyGridBlock

\* the names geometry() leaves alone
notSliceVars == << superLocals, overhangVars, methodVars, gridBlock, generator, toothPattern,
                   convertVars >>

\* the end of generateSliceGeometry for the section: its locals are dropped
SectionDone ==
    /\ pc' = "sections"
    /\ numRuns' = 0
    /\ newPaths' = << >>
    /\ offsetPathInner' = NoValue

\* lines 1370-1382 and 2326-2329: geometry() calls generateSupportSlices, which
\* takes the X and Y sections from generateGridSlices
GeometryCall ==
    /\ pc = "idle"
    /\ \E n \in 0..MaxSections : numSections' = n
    /\ section' = 0
    /\ sectionMeshList' = << >>
    /\ pc' = "sections"
    /\ UNCHANGED << notSliceVars, exitVars, numRuns, newPaths, offsetPathInner >>

\* lines 2332-2338 (2382-2389 for Y) and 1477-1502: the next section is handed
\* to generateSliceGeometry; an empty section returns None and is passed over
SectionHead ==
    /\ pc = "sections"
    /\ section < numSections
    /\ section' = section + 1
    /\ \E n \in 0..MaxRuns :
          /\ numRuns' = n
          /\ pc' = IF n = 0 THEN "sections" ELSE "runs"
    /\ newPaths' = << >>
    /\ UNCHANGED << notSliceVars, exitVars, numSections, offsetPathInner,
                    sectionMeshList >>

\* lines 1521-1581: one pass of for segIdx in partsIdx
StampRun ==
    /\ pc = "runs"
    /\ Len(newPaths) < numRuns
    /\ \E isccw \in BOOLEAN, length \in RunLengths :
          newPaths' = Append(newPaths, teethFinal(gridBlock, isccw, length))
    /\ UNCHANGED << notSliceVars, pc, exitVars, numSections, section, numRuns,
                    offsetPathInner, sectionMeshList >>

\* lines 1584-1681: the polygon of the section, then the read of
\* self._generateTrussGrid: AttributeError when it was never assigned; when it
\* is false the path list of pc.execute is returned (lines 1671-1673) and
\* generateSupportSlices reads section.children (line 2350), which a list does
\* not have; when it is true the inward offset is taken
TrussSwitch ==
    /\ pc = "runs"
    /\ Len(newPaths) = numRuns
    /\ CASE gridBlock.generateTrussGrid = "unset" ->
              /\ Raise("AttributeError: _generateTrussGrid")
              /\ UNCHANGED << numRuns, newPaths, offsetPathInner, sectionMeshList >>
         [] gridBlock.generateTrussGrid = "False" ->
              /\ Raise("AttributeError: children")
              /\ UNCHANGED << numRuns, newPaths, offsetPathInner, sectionMeshList >>
         [] OTHER ->
              /\ \E n \in 0..1 : offsetPathInner' = n
              /\ pc' = "inner"
              /\ UNCHANGED << exitVars, numRuns, newPaths, sectionMeshList >>
    /\ UNCHANGED << notSliceVars, numSections, section >>

\* lines 1683-1756 and 2337-2375: an empty inner path returns None and the
\* section is passed over; otherwise the truss is built, as the polygon tree
\* of pc2.execute2 when the walls are thickened (line 1752) and as the path
\* list of pc2.execute when they are not, and generateSupportSlices reads
\* section.children (line 2350), which a list does not have
InnerCheck ==
    /\ pc = "inner"
    /\ IF offsetPathInner < 1
       THEN /\ SectionDone
            /\ UNCHANGED << sectionMeshList, exitVars >>
       ELSE IF gridBlock.supportWallThickness > 0
       THEN /\ SectionDone
            /\ sectionMeshList' =
                  Append(sectionMeshList, [section |-> section, truss |-> TRUE])
            /\ UNCHANGED exitVars
       ELSE /\ Raise("AttributeError: children")
            /\ UNCHANGED << numRuns, newPaths, offsetPathInner, sectionMeshList >>
    /\ UNCHANGED << notSliceVars, numSections, section >>

\* lines 2377-2436 and 1383-1408: generateSupportSkins is run on the support
\* volume, and the section meshes and the skin are concatenated and returned
GeometryReturn ==
    /\ pc = "sections"
    /\ section = numSections
    /\ pc' = "returned"
    /\ \E a \in SeqsOf(SurfAreas, 1, 3), t \in SeqsOf({40}, 1, MaxLoops),
          b \in SeqsOf({40}, 1, MaxLoops) :
          LET supportSkins == IF gridBlock.useSupportSkin
                              THEN generateSupportSkins(a, t, b)
                              ELSE << >>
          IN  /\ callArgs' = [method |-> "generateSupportSkins",
                              surfAreas |-> a, topPaths |-> t, bottomPaths |-> b]
              /\ callResult' = [called |-> TRUE, value |-> supportSkins]
              /\ result' = [returned |-> TRUE,
                            blocks |-> sectionMeshList \o supportSkins]
    /\ UNCHANGED << superLocals, overhangVars, gridBlock, generator, toothPattern,
                    convertVars, error, sliceVars >>

NextSlices ==
    \/ SetUseUpperSupportTeeth
    \/ SetUseLowerSupportTeeth
    \/ SetGenerateTrussGrid
    \/ SetSupportWallThickness
    \/ SetSupportTeethBaseInterval
    \/ GeometryCall
    \/ SectionHead
    \/ StampRun
    \/ TrussSwitch
    \/ InnerCheck
    \/ GeometryReturn

SpecSlices == InitSlices /\ [][NextSlices]_vars

\* ------------------------------------------------- methods called on their own
\* lines 2456-2457, 2465-2466: np.ceil(a / b) for a >= 0, b > 0
Ceil(a, b) == (a + b - 1) \div b

\* lines 2463, 2471 without the 1e-8 added to the stop value
arangeExclusive(start, stop, step) ==
    [k \in 1..((stop - start) \div step) |-> start + (k - 1) * step]

\* lines 2463, 2471: np.arange(start, stop + 1e-8, step) on lengths that are
\* whole tenths of a millimetre: every start + k * step <= stop is produced
arange(start, stop, step) ==
    [k \in 1..((stop - start) \div step + 1) |-> start + (k - 1) * step]

\* lines 2455-2463 (2465-2471 for Y): the plane origin and the heights of the
\* slice planes of one axis, measured from the origin along the normal
sliceHeights(b, spacing) ==
    LET mid == (b[1] + b[2]) \div 2
        bottom == -1 * Ceil(mid - b[1], spacing) * spacing
        top == Ceil(b[2] - mid, spacing) * spacing
    IN  [origin |-> mid, heights |-> arange(bottom, top, spacing)]

\* lines 2438-2473: GridBlockSupport.generateGridSlices
generateGridSlices(bounds, gridSpacing) ==
    [sectionsX |-> sliceHeights(bounds.bx, gridSpacing[1]),
     sectionsY |-> sliceHeights(bounds.by, gridSpacing[2])]

\* extents of a support volume along one axis, in tenths of a millimetre
Extents == { <<0, 100>>, <<-30, 30>>, <<10, 130>> }

\* values of gridSpacing[0] and gridSpacing[1], in tenths of a millimetre
GridSpacings == {20, 30}

\* the names a method called on its own leaves alone
notMethodVars == << regionVars, overhangVars, gridVars >>

\* a call of generateGridSlices on a block with the given volume and spacing
InitGridSlices ==
    \E bx \in Extents, by \in Extents, sx \in GridSpacings, sy \in GridSpacings :
        callArgs = [method |-> "generateGridSlices",
                    bounds |-> [bx |-> bx, by |-> by],
                    gridSpacing |-> <<sx, sy>>]

\* sectionsX, sectionsY = self.generateGridSlices()
GenerateGridSlices ==
    /\ callArgs.method = "generateGridSlices"
    /\ ~callResult.called
    /\ callResult' = [called |-> TRUE,
                      value |-> generateGridSlices(callArgs.bounds,
                                                   callArgs.gridSpacing)]
    /\ UNCHANGED << notMethodVars, callArgs >>

\* rows and columns of the images rendered by projectHeightMap
ImgSize == 2

\* heights of a pixel of the upper image and of the lower image, in hundredths
\* of a millimetre: the lower ones sit on and just above the mask level 1.01
UpperPixels == {0, 150}
LowerPixels == {101, 102}

\* line 626: np.flipud(img) reverses the order of the rows
flipud(img) == [r \in 1..Len(img) |-> img[Len(img) + 1 - r]]

\* line 633: img.T
transpose(img) == [c \in 1..Len(img[1]) |-> [r \in 1..Len(img) |-> img[r][c]]]

\* lines 630-631: mask = lowerImg > 1.01; img[mask] = lowerImg[mask]
maskedAssign(img, lowerImg) ==
    [r \in 1..Len(img) |->
        [c \in 1..Len(img[r]) |->
            IF lowerImg[r][c] > 101 THEN lowerImg[r][c] ELSE img[r][c]]]

\* lines 626-633 with heightMap2 = upperImg: both names are one array
identifySelfIntersectionHeightMapAliased(upperImg, projected) ==
    LET lowerImg == flipud(projected)
        heightMap2 == maskedAssign(upperImg, lowerImg)
    IN  << transpose(heightMap2), heightMap2, lowerImg >>

\* lines 599-633: BlockSupportGenerator._identifySelfIntersectionHeightMap from
\* the two images projectHeightMap returns; heightMap2 = upperImg.copy() is an
\* array of its own
identifySelfIntersectionHeightMap(upperImg, projected) ==
    LET lowerImg == flipud(projected)
        heightMap2 == maskedAssign(upperImg, lowerImg)
    IN  << transpose(heightMap2), upperImg, lowerImg >>

\* a call of _identifySelfIntersectionHeightMap: the images projectHeightMap
\* renders from subregion and from cutMesh
InitHeightMap ==
    LET Pixels == 1..ImgSize IN
    \E u \in [Pixels -> [Pixels -> UpperPixels]],
       l \in [Pixels -> [Pixels -> LowerPixels]] :
        callArgs = [method |-> "_identifySelfIntersectionHeightMap",
                    upperImg |-> u, lowerImg |-> l]

\* heightMap, upperImg, lowerImg = self._identifySelfIntersectionHeightMap(..)
IdentifySelfIntersectionHeightMap ==
    /\ callArgs.method = "_identifySelfIntersectionHeightMap"
    /\ ~callResult.called
    /\ callResult' =
          [called |-> TRUE,
           value |-> identifySelfIntersectionHeightMap(callArgs.upperImg,
                                                       callArgs.lowerImg)]
    /\ UNCHANGED << notMethodVars, callArgs >>

\* np.sin(np.deg2rad(angle)) in thousandths, for the truss angles drawn
SinDeg(angle) == CASE angle = 30 -> 500 [] angle = 45 -> 707 [] angle = 60 -> 866

\* line 1686 reading self._gridSpacing[1]
sliceDiagOfY(self) == self.gridSpacing[2] * SinDeg(self.trussAngle)

\* line 1686 in generateSliceGeometry, run on every X and every Y section:
\* diag = self._gridSpacing[0] * np.sin(np.deg2rad(self._trussAngle))
sliceDiag(self) == self.gridSpacing[1] * SinDeg(self.trussAngle)

\* line 1871 in generateSupportSkinInfill: the same expression
skinDiag(self) == self.gridSpacing[1] * SinDeg(self.trussAngle)

\* lines 1686-1690, 1871-1886, 2452-2471: the slice planes of a block and the
\* hatchSpacing handed to generateMeshGrid on its X slices, Y slices and skin
trussHatches(self) ==
    [sections |-> generateGridSlices(self.bounds, self.gridSpacing),
     hatchSpacingX |-> sliceDiag(self),
     hatchSpacingY |-> sliceDiag(self),
     hatchSpacingSkin |-> skinDiag(self)]

\* a block with the given volume, gridSpacing and trussAngle
InitTrussHatches ==
    \E b \in Extents, sx \in GridSpacings, sy \in GridSpacings, a \in {45, 60} :
        callArgs = [method |-> "generateMeshGrid",
                    bounds |-> [bx |-> b, by |-> b],
                    gridSpacing |-> <<sx, sy>>,
                    trussAngle |-> a]

\* the calls of generateMeshGrid made while the geometry of the block is built
GenerateMeshGrid ==
    /\ callArgs.method = "generateMeshGrid"
    /\ ~callResult.called
    /\ callResult' = [called |-> TRUE, value |-> trussHatches(callArgs)]
    /\ UNCHANGED << notMethodVars, callArgs >>

\* cells of the slice plane; a polygon or path list is the set of cells it covers
NumCells == 4

\* line 1681: pc.execute(-self._supportBorderDistance), the cells of the
\* polygon whose neighbours on both sides lie in the polygon
offsetInward(paths) == { c \in paths : c - 1 \in paths /\ c + 1 \in paths }

\* lines 1592-1630 and 1715-1756 with the wall polygons left unclipped
sliceSolutionUnclippedWalls(self, nPathPoly, trussPaths, offsetWalls) ==
    LET outerPaths == nPathPoly
        innerPaths == offsetInward(nPathPoly)
        trimmedTrussPaths == trussPaths \cap outerPaths
        skinSolutionPaths == outerPaths \ innerPaths
        solution == IF self.useSupportBorder
                    THEN trimmedTrussPaths \cup skinSolutionPaths
                    ELSE trimmedTrussPaths
    IN  IF self.supportWallThickness > 0
        THEN solution \cup offsetWalls
        ELSE solution

\* lines 1592-1630 and 1715-1756: the polygon generateSliceGeometry composes on
\* the truss branch from nPathPoly (the toothed polygon of the section, whose
\* offset by 1e-6 is outerPaths), the widened hatches trussPaths and the
\* widened top and bottom edges offsetWalls; supportWallThickness is in tenths
\* of a millimetre, so that > 1e-5 reads > 0
sliceSolution(self, nPathPoly, trussPaths, offsetWalls) ==
    LET outerPaths == nPathPoly
        innerPaths == offsetInward(nPathPoly)
        trimmedTrussPaths == trussPaths \cap outerPaths
        skinSolutionPaths == outerPaths \ innerPaths
        solution == IF self.useSupportBorder
                    THEN trimmedTrussPaths \cup skinSolutionPaths
                    ELSE trimmedTrussPaths
        isectPolyC == offsetWalls \cap nPathPoly
    IN  IF self.supportWallThickness > 0
        THEN solution \cup isectPolyC
        ELSE solution

\* a section with a non-empty inner path on a block with generateTrussGrid set
InitSliceSolution ==
    \E n \in SUBSET (1..NumCells), t \in SUBSET (1..NumCells),
       w \in SUBSET (1..NumCells), border \in BOOLEAN, thickness \in {0, 5} :
        /\ offsetInward(n) # {}
        /\ callArgs = [method |-> "generateSliceGeometry",
                       useSupportBorder |-> border,
                       supportWallThickness |-> thickness,
                       nPathPoly |-> n, trussPaths |-> t, offsetWalls |-> w]

\* lines 1683-1756 of generateSliceGeometry(section)
GenerateSliceGeometry ==
    /\ callArgs.method = "generateSliceGeometry"
    /\ ~callResult.called
    /\ callResult' = [called |-> TRUE,
                      value |-> sliceSolution(callArgs, callArgs.nPathPoly,
                                              callArgs.trussPaths,
                                              callArgs.offsetWalls)]
    /\ UNCHANGED << notMethodVars, callArgs >>

\* a call of generateSupportSkins on a block whose vertical walls split into
\* one to three components
InitSupportSkins ==
    \E a \in SeqsOf(SurfAreas, 1, 3), t \in SeqsOf(LoopLengths, 1, MaxLoops),
       b \in SeqsOf(LoopLengths, 1, MaxLoops) :
        callArgs = [method |-> "generateSupportSkins",
                    surfAreas |-> a, topPaths |-> t, bottomPaths |-> b]

\* line 1386: supportSkins = self.generateSupportSkins()
GenerateSupportSkins ==
    /\ callArgs.method = "generateSupportSkins"
    /\ ~callResult.called
    /\ callResult' = [called |-> TRUE,
                      value |-> generateSupportSkins(callArgs.surfAreas,
                                                     callArgs.topPaths,
                                                     callArgs.bottomPaths)]
    /\ UNCHANGED << notMethodVars, callArgs >>

InitMethods ==
    /\ RegionsIdle
    /\ OverhangIdle
    /\ gridBlock = NoObject
    /\ generator = NoObject
    /\ GridCallsIdle
    /\ callResult = NotCalled
    /\ \/ InitGridSlices
       \/ InitHeightMap
       \/ InitTrussHatches
       \/ InitSliceSolution
       \/ InitSupportSkins

NextMethods ==
    \/ GenerateGridSlices
    \/ IdentifySelfIntersectionHeightMap
    \/ GenerateMeshGrid
    \/ GenerateSliceGeometry
    \/ GenerateSupportSkins

SpecMethods == InitMethods /\ [][NextMethods]_vars

\* ------------------------------------------------------------------ claims
\* the last block of a block list
LastBlock(blocks) == blocks[Len(blocks)]

\* the step appends exactly one block to supportBlockRegions
AppendsOneBlock ==
    /\ Len(supportBlockRegions') = Len(supportBlockRegions) + 1
    /\ SubSeq(supportBlockRegions', 1, Len(supportBlockRegions)) = supportBlockRegions

\* C1: when identifySupportRegions is called with findSelfIntersectingSupport
\* = false, every block of the returned list has intersectsPart = false.
C1_NoIntersectingBlockWithoutFind ==
    (pc = "returned" /\ ~findSelfIntersectingSupport)
        => \A i \in 1..Len(result.blocks) : ~result.blocks[i].intersectsPart

\* C2: every block appended to the list has intersectsPart = true exactly when
\* the volume of the region's cutMesh is greater than the tolerance of 50.
C2_IntersectsPartIffVolumeAboveTolerance ==
    [][ Len(supportBlockRegions') > Len(supportBlockRegions)
          => (LastBlock(supportBlockRegions').intersectsPart
                <=> cutVolume > IntersectionVolumeTolerance) ]_vars

C4_ApproxBasePlateBlock ==
    [][ (pc = "test" /\ cutVolume < IntersectionVolumeTolerance
           /\ useApproxBasePlateSupport)
          => (/\ AppendsOneBlock
              /\ LastBlock(supportBlockRegions').supportVolume.mesh = "extruMesh"
              /\ LastBlock(supportBlockRegions').supportVolume.region = subregion
              /\ LastBlock(supportBlockRegions').supportSurface = subregion
              /\ LastBlock(supportBlockRegions').intersectsPart = FALSE
              /\ pc' = "loop"
              /\ subregion' = subregion) ]_vars

\* the approximate base-plate block has been appended in a call that does not
\* look for self-intersecting supports
C4_Witness ==
    /\ pc = "loop"
    /\ useApproxBasePlateSupport
    /\ ~findSelfIntersectingSupport
    /\ Len(supportBlockRegions) > 0
    /\ LastBlock(supportBlockRegions).supportVolume.mesh = "extruMesh"
    /\ LastBlock(supportBlockRegions).supportSurface = subregion

\* C5: when flattening a region fails, only that region is skipped: the blocks
\* emitted so far stay in the list, the loop goes on with the next region and
\* no exception leaves the call.
C5_FlattenFailureSkipsOnlyRegion ==
    [][ pc = "flattenExcept"
          => (/\ pc' = "loop"
              /\ supportBlockRegions' = supportBlockRegions
              /\ subregion' = subregion
              /\ numSubregions' = numSubregions
              /\ error' = "none"
              /\ result' = result) ]_vars

\* flattening has failed for a region that follows a region with a block
C5_Witness ==
    /\ pc = "flattenExcept"
    /\ subregion > 1
    /\ Len(supportBlockRegions) > 0

\* C6: the offset outline path is never read in an iteration that has not
\* assigned it: where line 785 or line 856 reads offsetPoly, it is bound and
\* holds the outline of the region in progress only.
C6_OffsetPolyAssignedBeforeRead ==
    (\/ pc = "heightMap"
     \/ (pc = "areaCheck" /\ ShapeArea(offsetShape) >= DefaultMinimumAreaThreshold
           /\ offsetShape.kind = "MultiPolygon" /\ NumValidPieces(offsetShape) > 1))
        => (offsetPoly.bound /\ offsetPoly.regions = {subregion})

C8_SubthresholdAreaSkipped ==
    [][ /\ (pc = "areaCheck" /\ ShapeArea(offsetShape) < DefaultMinimumAreaThreshold)
            => (/\ pc' = "loop"
                /\ supportBlockRegions' = supportBlockRegions
                /\ subregion' = subregion
                /\ error' = "none")
        /\ (pc = "polyArea" /\ bufferArea < DefaultMinimumAreaThreshold)
            => (/\ pc' = "polys"
                /\ supportBlockRegions' = supportBlockRegions
                /\ polyIdx' = polyIdx
                /\ polygons' = polygons
                /\ subregion' = subregion) ]_vars

\* a sub-region polygon below the threshold is about to be skipped while another
\* polygon of the same region and another region are still to come
C8_Witness ==
    /\ pc = "polyArea"
    /\ bufferArea < DefaultMinimumAreaThreshold
    /\ polyIdx < Len(polygons)
    /\ subregion < numSubregions

\* C9: with N vertices, U upward hits and D downward hits: U = N and D = N
\* builds a block with the bottom at the hit Z minus lowerProjectionOffset;
\* U = N and D = 0 builds a block with the bottom at Z = 0; every other
\* disagreement (U # N, or 0 < D # U) skips the sub-region without a block.
C9_ProjectionMismatchSkips ==
    [][ pc = "build"
          => (/\ (nHitLoc = nCoords /\ nHitLoc2 = nCoords)
                    => (AppendsOneBlock /\ coords3' = "hitMinusLowerProjectionOffset")
              /\ (nHitLoc = nCoords /\ nHitLoc2 = 0)
                    => (AppendsOneBlock /\ coords3' = "zero")
              /\ (nHitLoc # nCoords \/ (0 < nHitLoc2 /\ nHitLoc2 # nHitLoc))
                    => supportBlockRegions' = supportBlockRegions) ]_vars

\* C10: the gradient threshold handed to find_contours is
\* 5 * tan(overhangAngle) * rayProjectionResolution for the overhangAngle
\* passed to the call.
C10_GradThresholdUsesCallAngle ==
    gradThresholdUsed # NoValue
        => gradThresholdUsed
             = 5 * TanMilli(overhangAngle) * DefaultRayProjectionResolution

\* the set of the elements of a sequence
Range(seq) == { seq[k] : k \in 1..Len(seq) }

\* the elements of a sequence are strictly increasing
Increasing(seq) == \A k \in 1..(Len(seq) - 1) : seq[k] < seq[k + 1]

\* C11: findOverhangPoints returns, in increasing order, exactly the vertices
\* whose every neighbour n has z(n) - z(i) > -POINT_OVERHANG_TOLERANCE and
\* whose vertex normal has a strictly negative Z; no other vertex is returned
C11_OverhangPointsExact ==
    pointOverhangs.called =>
        /\ Increasing(pointOverhangs.value)
        /\ \A i \in 1..NumMeshVerts :
              i \in Range(pointOverhangs.value) <=>
                  /\ \A n \in part.vertex_neighbors[i] :
                        part.vertices[n] - part.vertices[i] > -5
                  /\ part.vertex_normals[i] < 0

\* a vertex with a neighbour exactly 0.05 below it is left out, a vertex with a
\* horizontal normal is left out, and a vertex passing both tests is returned
C11_Witness ==
    /\ pointOverhangs.called
    /\ Len(pointOverhangs.value) > 0
    /\ \E i \in 1..NumMeshVerts :
          /\ i \notin Range(pointOverhangs.value)
          /\ part.vertex_normals[i] < 0
          /\ \E n \in part.vertex_neighbors[i] :
                part.vertices[n] - part.vertices[i] = -5
    /\ \E i \in 1..NumMeshVerts :
          /\ i \notin Range(pointOverhangs.value)
          /\ part.vertex_normals[i] = 0

\* the two faces incident to the unique edge i
IncidentFaces(mesh, i) ==
    UNION { mesh.face_adjacency[k] :
            k \in { j \in 1..NumMeshEdges : mesh.face_adjacency_edges[j] = i } }

\* the dihedral angle at the unique edge i
DihedralAt(mesh, i) ==
    mesh.face_adjacency_angles[
        CHOOSE k \in 1..NumMeshEdges : mesh.face_adjacency_edges[k] = i]

\* C12: findOverhangEdges returns an edge exactly when its inclination is
\* below edgeAngle in magnitude, both faces incident to that edge have an
\* inclination above surfaceAngle and their dihedral angle exceeds surfaceAngle
C12_OverhangEdgesByArguments ==
    overhangEdges.called =>
        \A i \in 1..NumMeshEdges :
            i \in Range(overhangEdges.value) <=>
                /\ Abs(ArcSinDeg(part.edge_slopes[i])) < overhangArgs.edgeOverhangAngle
                /\ \A f \in IncidentFaces(part, i) :
                      part.theta[f] > overhangArgs.overhangAngle
                /\ DihedralAt(part, i) > overhangArgs.overhangAngle

\* C13: toothProfile() returns five vertices with x = 0, (c-b)/2, (c-b)/2 + b,
\* c, c + d and y = 0, a, a, 0, 0 shifted by -a + supportTeethUpperPenetration
\* (period c + d, tip at the penetration), and changes no parameter of the block
C13_ToothProfileVertices ==
    [][ToothProfile =>
         LET a == gridBlock.supportTeethHeight
             b == gridBlock.supportTeethTopLength
             c == gridBlock.supportTeethBottomLength
             d == gridBlock.supportTeethBaseInterval
             pen == gridBlock.supportTeethUpperPenetration
             v == toothPattern'.value
         IN  /\ Len(v) = 5
             /\ v[1][1] = 0 /\ 2 * v[2][1] = c - b /\ 2 * v[3][1] = c + b
             /\ v[4][1] = c /\ v[5][1] = c + d
             /\ v[1][2] = pen - a /\ v[2][2] = pen /\ v[3][2] = pen
             /\ v[4][2] = pen - a /\ v[5][2] = pen - a
             /\ gridBlock' = gridBlock]_vars

\* toothProfile() has returned for a block whose five tooth parameters were
\* all changed from their defaults, the top length above the bottom length
C13_Witness ==
    /\ toothPattern.called
    /\ toothPattern.value = toothProfile(gridBlock)
    /\ gridBlock.supportTeethHeight = 10
    /\ gridBlock.supportTeethTopLength = 15
    /\ gridBlock.supportTeethBottomLength = 1
    /\ gridBlock.supportTeethBaseInterval = 5
    /\ gridBlock.supportTeethUpperPenetration = 0
    /\ toothPattern.value[2][1] = -7

\* C14: on the block and on the generator, reading supportTeethBottomLength
\* returns the value last written to it (the attribute the setter writes, or
\* its default 1.5), whatever was written to supportTeethTopLength
C14_BottomLengthReadsBottomLength ==
    /\ GridBlockSupportTeethBottomLength(gridBlock) = gridBlock.supportTeethBottomLength
    /\ GeneratorSupportTeethBottomLength(generator) = generator.supportTeethBottomLength

\* the attributes C15 names, read from a block or from the generator
TrussAndToothParameters(o) ==
    << o.gridSpacing, o.trussWidth, o.trussAngle, o.supportBorderDistance,
       o.numSkinMeshSubdivideIterations, o.useUpperSupportTeeth,
       o.useLowerSupportTeeth, o.supportTeethHeight, o.supportTeethTopLength,
       o.supportTeethBottomLength, o.supportTeethBaseInterval,
       o.supportTeethUpperPenetration >>

\* C15: every GridBlockSupport returned by
\* GridBlockSupportGenerator.identifySupportRegions carries the generator's
\* truss and tooth parameters of the same names; with a default generator
\* the block's tooth (a, b, c, d) is (1.5, 0.1, 1.5, 0.2)
C15_BlocksCarryGeneratorParameters ==
    pc = "returned" =>
        \A k \in 1..Len(result.blocks) :
            /\ TrussAndToothParameters(result.blocks[k])
                   = TrussAndToothParameters(generator)
            /\ generator = GridBlockSupportGenerator =>
                   /\ result.blocks[k].supportTeethHeight = 15
                   /\ result.blocks[k].supportTeethTopLength = 1
                   /\ result.blocks[k].supportTeethBottomLength = 15
                   /\ result.blocks[k].supportTeethBaseInterval = 2

\* C16: GridBlockSupportGenerator.identifySupportRegions never fails while
\* converting a base block, and returns one GridBlockSupport per base block,
\* in the same order, with the base block's supportObject, supportVolume,
\* supportSurface and intersectsPart
C16_OneGridBlockPerBaseBlock ==
    /\ error # "AttributeError: _upperSurface"
    /\ pc = "returned" =>
          /\ Len(result.blocks) = Len(supportBlocks)
          /\ \A k \in 1..Len(supportBlocks) :
                /\ result.blocks[k].supportObject = supportBlocks[k].supportObject
                /\ result.blocks[k].supportVolume = supportBlocks[k].supportVolume
                /\ result.blocks[k].supportSurface = supportBlocks[k].supportSurface
                /\ result.blocks[k].intersectsPart = supportBlocks[k].intersectsPart

\* C17: geometry() on a block exactly as created by its constructor or as
\* returned by the generator never fails on a parameter that was never
\* initialised
C17_GeometryReadsOnlyInitialised ==
    gridBlock \in CreatedBlocks => error # "AttributeError: _generateTrussGrid"

\* the tooth period c + d of the block
Period == gridBlock.supportTeethBottomLength + gridBlock.supportTeethBaseInterval

\* C18: an upper run with useUpperSupportTeeth false, a lower run with
\* useLowerSupportTeeth false and a run shorter than one tooth period are
\* emitted as their original vertex sequence; a longer upper run is toothed
\* exactly when the upper flag is set and a longer lower run exactly when the
\* lower flag is set
C18_DisabledOrShortRunsUnmodified ==
    \A k \in 1..Len(newPaths) :
        LET run == newPaths[k] IN
        /\ run.isccw /\ ~gridBlock.useUpperSupportTeeth => run.original
        /\ ~run.isccw /\ ~gridBlock.useLowerSupportTeeth => run.original
        /\ run.length < Period => run.original
        /\ run.isccw /\ run.length > Period =>
              (run.original <=> ~gridBlock.useUpperSupportTeeth)
        /\ ~run.isccw /\ run.length > Period =>
              (run.original <=> ~gridBlock.useLowerSupportTeeth)

\* one section holds a long lower run left unmodified by the lower flag and a
\* long upper run toothed although the lower flag is off
C18_Witness ==
    /\ ~gridBlock.useLowerSupportTeeth
    /\ gridBlock.useUpperSupportTeeth
    /\ \E k \in 1..Len(newPaths) :
          ~newPaths[k].isccw /\ newPaths[k].length > Period /\ newPaths[k].original
    /\ \E k \in 1..Len(newPaths) :
          newPaths[k].isccw /\ newPaths[k].length > Period /\ ~newPaths[k].original

\* teeth are enabled on the run
TeethEnabled(run) ==
    IF run.isccw THEN gridBlock.useUpperSupportTeeth
    ELSE gridBlock.useLowerSupportTeeth

\* C19 as stated: on a run of length L with teeth enabled, the number of
\* tooth periods stamped is ceil(L / (c + d)), also for L <= c + d
C19_CyclesAreCeiling ==
    \A k \in 1..Len(newPaths) :
        TeethEnabled(newPaths[k]) =>
            /\ (newPaths[k].cycles - 1) * Period < newPaths[k].length
            /\ newPaths[k].length <= newPaths[k].cycles * Period

\* C19 amended: on a run of length L > c + d with teeth enabled, the number
\* of tooth periods stamped is ceil(L / (c + d)); on a run with L <= c + d no
\* period is stamped and the run keeps its original vertex sequence
C19_CyclesAreCeilingAboveOnePeriod ==
    \A k \in 1..Len(newPaths) :
        TeethEnabled(newPaths[k]) =>
            IF newPaths[k].length > Period
            THEN /\ ~newPaths[k].original
                 /\ (newPaths[k].cycles - 1) * Period < newPaths[k].length
                 /\ newPaths[k].length <= newPaths[k].cycles * Period
            ELSE newPaths[k].original /\ newPaths[k].cycles = 0

\* a section holds an enabled run of exactly one period, left unmodified, and
\* an enabled run just above one period, stamped with two periods
C19_Witness ==
    /\ \E k \in 1..Len(newPaths) :
          /\ TeethEnabled(newPaths[k])
          /\ newPaths[k].length = Period
          /\ newPaths[k].original
    /\ \E k \in 1..Len(newPaths) :
          /\ TeethEnabled(newPaths[k])
          /\ newPaths[k].length = 20 /\ Period = 17
          /\ newPaths[k].cycles = 2

\* C20: when the inward offset by supportBorderDistance is empty, the section
\* still contributes its polygon to the output
C20_EmptyInnerPathKeepsSection ==
    [][pc = "inner" /\ offsetPathInner = 0 =>
         /\ Len(sectionMeshList') = Len(sectionMeshList) + 1
         /\ sectionMeshList'[Len(sectionMeshList')].section = section]_vars

\* the slice planes returned for one axis of the call
AxisPlanes == { callResult.value.sectionsX, callResult.value.sectionsY }

\* the extent and spacing of the axis the planes p were computed for
AxisOf(p) ==
    IF p = callResult.value.sectionsX
    THEN [b |-> callArgs.bounds.bx, spacing |-> callArgs.gridSpacing[1]]
    ELSE [b |-> callArgs.bounds.by, spacing |-> callArgs.gridSpacing[2]]

\* C21 as stated: for the 10 x 10 x 10 block with gridSpacing (3, 3) the slice
\* planes of each axis lie at -4.5, -1.5, 1.5, 4.5 from the block centre; in
\* general the planes of an axis lie symmetrically about the bounding-box centre
\* at odd multiples of half the spacing, all inside the bounding box
C21_PlanesAtHalfSpacingOffsets ==
    callArgs.method = "generateGridSlices" /\ callResult.called =>
        \A p \in AxisPlanes :
            LET b == AxisOf(p).b
                s == AxisOf(p).spacing
            IN  /\ p.origin = (b[1] + b[2]) \div 2
                /\ \A h \in Range(p.heights) :
                      /\ -h \in Range(p.heights)
                      /\ (2 * h) % (2 * s) = s
                      /\ 2 * Abs(h) <= b[2] - b[1]
                /\ b[2] - b[1] = 100 /\ s = 30 =>
                      p.heights = <<-45, -15, 15, 45>>

\* C21 amended: the slice planes of an axis lie symmetrically about the
\* bounding-box centre at the whole multiples k * spacing, k = -n..n with
\* n = ceil(half-extent / spacing), the centre plane included; the outermost
\* planes lie on or beyond the bounding-box faces; for the 10 x 10 x 10 block with
\* gridSpacing (3, 3) the planes lie at -6, -3, 0, 3, 6 from the block centre
C21_PlanesAtSpacingMultiples ==
    callArgs.method = "generateGridSlices" /\ callResult.called =>
        \A p \in AxisPlanes :
            LET b == AxisOf(p).b
                s == AxisOf(p).spacing
                n == Ceil((b[2] - b[1]) \div 2, s)
            IN  /\ p.origin = (b[1] + b[2]) \div 2
                /\ Len(p.heights) = 2 * n + 1
                /\ \A k \in 1..Len(p.heights) : p.heights[k] = (k - n - 1) * s
                /\ \A h \in Range(p.heights) : -h \in Range(p.heights)
                /\ 2 * p.heights[Len(p.heights)] >= b[2] - b[1]
                /\ b[2] - b[1] = 100 /\ s = 30 =>
                      p.heights = <<-60, -30, 0, 30, 60>>

\* the 10 x 10 block sliced with gridSpacing (3, 3)
C21_Witness ==
    /\ callArgs.method = "generateGridSlices"
    /\ callArgs.bounds = [bx |-> <<0, 100>>, by |-> <<0, 100>>]
    /\ callArgs.gridSpacing = <<30, 30>>
    /\ callResult.called
    /\ callResult.value.sectionsX.heights = <<-60, -30, 0, 30, 60>>
    /\ callResult.value.sectionsY.heights = <<-60, -30, 0, 30, 60>>

\* C23: no two blocks of the returned list reference the same supportSurface
\* mesh object or the same supportVolume mesh object, also when both come from
\* sub-regions of one overhang region
C23_BlocksOwnSurfaceAndVolume ==
    result.returned =>
        \A i, j \in 1..Len(result.blocks) :
            i # j =>
                /\ result.blocks[i].supportSurface # result.blocks[j].supportSurface
                /\ result.blocks[i].supportVolume # result.blocks[j].supportVolume

\* C28: within one region the comparison of line 962 holds exactly when the
\* comparison of line 814 fails, for every cutMesh volume: once the ray casts
\* of a sub-region are done, the region was ray-cast downward against
\* cutMeshUpper if and only if the self-intersection test did not find its
\* volume below the tolerance
C28_ToleranceComparisonsAgree ==
    pc = "build" => (AboveTolerance(cutVolume) <=> ~BelowTolerance(cutVolume))

\* C30: on a GridBlockSupportGenerator, reading the lower-teeth property
\* returns the value last written to the lower-teeth property (true when never
\* written), whatever was written to the upper-teeth property, and every grid
\* block emitted afterwards carries that value as its useLowerSupportTeeth
C30_LowerTeethToggleIndependent ==
    generator # NoObject =>
        /\ useLowerSupporTeeth(generator) = generator.useLowerSupportTeeth
        /\ result.returned =>
              \A k \in 1..Len(result.blocks) :
                  result.blocks[k].useLowerSupportTeeth
                      = generator.useLowerSupportTeeth

\* C24: the combined height map returned by _identifySelfIntersectionHeightMap
\* (returned transposed) holds, at every pixel, the value of the returned lower
\* image where that value is greater than 1.01 and the value of the returned
\* upper image otherwise, and the returned upper image is the image as rendered
C24_HeightMapCombinesImages ==
    callArgs.method = "_identifySelfIntersectionHeightMap" /\ callResult.called =>
        LET heightMap == callResult.value[1]
            upperImg == callResult.value[2]
            lowerImg == callResult.value[3]
        IN  /\ \A r \in 1..ImgSize, c \in 1..ImgSize :
                  heightMap[c][r] = IF lowerImg[r][c] > 101 THEN lowerImg[r][c]
                                    ELSE upperImg[r][c]
            /\ upperImg = callArgs.upperImg

\* a call where one pixel takes the lower value over a different upper value
\* and another pixel, with the lower image at 1.01 exactly, keeps the upper one
C24_Witness ==
    /\ callArgs.method = "_identifySelfIntersectionHeightMap"
    /\ callResult.called
    /\ \E r \in 1..ImgSize, c \in 1..ImgSize :
          /\ callResult.value[3][r][c] = 102
          /\ callResult.value[2][r][c] = 0
          /\ callResult.value[1][c][r] = 102
    /\ \E r \in 1..ImgSize, c \in 1..ImgSize :
          /\ callResult.value[3][r][c] = 101
          /\ callResult.value[1][c][r] = 150

\* C26: the truss hatch spacing used on the X slices, on the Y slices and on
\* the skin is gridSpacing[0] * sin(trussAngle); a block that differs in
\* gridSpacing[1] alone has the same hatch spacings and the same X slice planes
C26_HatchSpacingFromFirstSpacing ==
    callArgs.method = "generateMeshGrid" /\ callResult.called =>
        LET diag == callArgs.gridSpacing[1] * SinDeg(callArgs.trussAngle)
            v == callResult.value
        IN  /\ v.hatchSpacingX = diag
            /\ v.hatchSpacingY = diag
            /\ v.hatchSpacingSkin = diag
            /\ \A sy \in GridSpacings :
                  LET w == trussHatches(
                               [callArgs EXCEPT !.gridSpacing[2] = sy])
                  IN  /\ w.hatchSpacingX = v.hatchSpacingX
                      /\ w.hatchSpacingY = v.hatchSpacingY
                      /\ w.hatchSpacingSkin = v.hatchSpacingSkin
                      /\ w.sections.sectionsX = v.sections.sectionsX

\* a block with gridSpacing (3, 2): its hatch spacing is 3 sin 45 on every
\* slice and its Y planes are those of spacing 2
C26_Witness ==
    /\ callArgs.method = "generateMeshGrid"
    /\ callArgs.gridSpacing = <<30, 20>>
    /\ callArgs.trussAngle = 45
    /\ callResult.called
    /\ callResult.value.hatchSpacingY = 30 * 707
    /\ callResult.value.sections.sectionsY.heights[2]
          - callResult.value.sections.sectionsY.heights[1] = 20

\* C25: the polygon composed by generateSliceGeometry is
\* (truss /\ outerPath) \/ (outerPath - innerPath) when useSupportBorder is
\* true and truss /\ outerPath when it is false, united with the wall polygons
\* when supportWallThickness > epsilon, and lies inside the toothed polygon
C25_SliceComposition ==
    callArgs.method = "generateSliceGeometry" /\ callResult.called =>
        LET outerPath == callArgs.nPathPoly
            innerPath == offsetInward(callArgs.nPathPoly)
            truss == callArgs.trussPaths
            walls == callArgs.offsetWalls \cap callArgs.nPathPoly
            body == IF callArgs.useSupportBorder
                    THEN (truss \cap outerPath) \cup (outerPath \ innerPath)
                    ELSE truss \cap outerPath
        IN  /\ callResult.value =
                  IF callArgs.supportWallThickness > 0 THEN body \cup walls
                  ELSE body
            /\ callResult.value \subseteq callArgs.nPathPoly

\* a bordered slice with thick walls whose widened edges reach beyond the
\* toothed polygon and add a cell that neither truss nor border covers
C25_Witness ==
    /\ callArgs.method = "generateSliceGeometry"
    /\ callResult.called
    /\ callArgs.useSupportBorder
    /\ callArgs.supportWallThickness > 0
    /\ ~(callArgs.offsetWalls \subseteq callArgs.nPathPoly)
    /\ \E c \in callResult.value :
          /\ c \in callArgs.offsetWalls
          /\ c \in offsetInward(callArgs.nPathPoly)
          /\ c \notin callArgs.trussPaths

\* C27: in generateSupportSkins each top loop appears in at most one pair and
\* each bottom loop appears in at most one pair, so that at most one skin mesh
\* is generated per top loop
C27_PairingOneToOne ==
    callArgs.method = "generateSupportSkins" /\ callResult.called =>
        LET skins == callResult.value IN
        \A k, l \in 1..Len(skins) :
            k # l => /\ skins[k].top # skins[l].top
                     /\ skins[k].bottom # skins[l].bottom

\* the block's vertical walls do not split into two large components, or the
\* top and bottom outlines differ in their number of paths
SkinFails ==
    \/ Cardinality({ k \in 1..Len(callArgs.surfAreas) :
                         callArgs.surfAreas[k] > 5 }) # 2
    \/ Len(callArgs.topPaths) # Len(callArgs.bottomPaths)

C29_SliceGeometryReturnsTree ==
    error # "AttributeError: children"

====
